---------------------------- MODULE Spec2Model ----------------------------
(***************************************************************************)
(* A model of the Binance exchange adapter of ninjabot (package exchange): *)
(* its construction, order validation and submission (validate,            *)
(* OrderMarket, OrderLimit, OrderOCO), cancellation, the formatting of     *)
(* quantities and prices, the parsing of the venue's numeric-as-text       *)
(* responses, and the candle subscription goroutine with its two channels. *)
(*                                                                         *)
(* Numbers.  The float64 nearest to a multiple n * 10^-FracDigits, with    *)
(* n below 2^31, is kept as the integer n (1.23456 is 123456): every       *)
(* number the modelled venue sends and every number the adapter is given   *)
(* is one.  NaN and the infinities are kept by name.  Any other float64    *)
(* (ParseFloat gives one for a text such as "0.000009" or "0x1p-20") is    *)
(* kept as itself, the record of a sign, a mantissa of at most 53 binary   *)
(* digits and a binary exponent, standing for m * 2^e; zero has no sign.   *)
(* The operators that take numbers from the adapter's state (FormatFloat,  *)
(* Less, the funds needed) are defined on amounts and the named values.    *)
(* Where the code computes with float64 values (the products and the       *)
(* comparison of validate, the rounding of FormatFloat) the model computes *)
(* with the float64 the amount stands for and rounds each operation to     *)
(* nearest, ties to even, as IEEE 754 does.  Text (the decimal strings     *)
(* exchanged with the venue) is a sequence of one-character strings.       *)
(* Integers beyond 32 bits are sequences of base-2^13 limbs, least         *)
(* significant first.                                                      *)
(***************************************************************************)
EXTENDS Integers, Sequences, FiniteSets, Bags, TLC

\* Decimal digits after the point carried by a modelled amount (the model's
\* resolution; at least 5, at most 6 for amounts to stay in integer range).
FracDigits == 5
\* One whole unit (1.0) in modelled amounts.
Unit == 10 ^ FracDigits
\* Commissions are given by the venue in basis points and divided by 10000.0.
CommissionDivisor == 10000

Max(a, b) == IF a >= b THEN a ELSE b
Min(a, b) == IF a <= b THEN a ELSE b
Abs(a) == IF a < 0 THEN 0 - a ELSE a

(***************************************************************************)
(* Exact arithmetic on limb sequences.                                     *)
(***************************************************************************)
LimbBits == 13
Radix == 2 ^ LimbBits

\* The sum of the values, none negative, of the function f.
Sum(f) == BagCardinality([i \in {j \in DOMAIN f : f[j] > 0} |-> f[i]])

BigLimb(a, i) == IF 1 <= i /\ i <= Len(a) THEN a[i] ELSE 0

\* The number of limbs of a up to its highest limb that is not zero.
BigTop(a) == Cardinality({i \in 1..Len(a) : \E j \in i..Len(a) : a[j] # 0})

\* The sequence s without its high limbs that are zero.
BigTrimmed(s) == SubSeq(s, 1, BigTop(s))
BigTrim(a) == BigTrimmed(SubSeq(a, 1, Len(a)))

BigOfInt(n) == BigTrim(<<n % Radix, (n \div Radix) % Radix, n \div (Radix ^ 2)>>)

BigToInt(a) ==
    Sum([i \in 1..Len(a) |-> IF a[i] = 0 THEN 0 ELSE a[i] * (Radix ^ (i - 1))])

\* One pass of carries: every limb keeps its low part and takes the high part
\* of the limb below.
BigPass(c) ==
    SubSeq([k \in 1..(Len(c) + 1) |->
               (BigLimb(c, k) % Radix) + (BigLimb(c, k - 1) \div Radix)],
           1, Len(c) + 1)

\* Whether a carry of one reaches limb k of x, whose limbs are at most Radix.
BigCarryIn(x, k) ==
    \E j \in 1..(k - 1) :
        /\ x[j] = Radix
        /\ \A i \in (j + 1)..(k - 1) : x[i] = Radix - 1

BigResolve(x) ==
    BigTrim([k \in 1..(Len(x) + 1) |->
                (BigLimb(x, k) + IF BigCarryIn(x, k) THEN 1 ELSE 0) % Radix])

\* The number whose limbs, before carrying, are the c[k] < 2^31: after three
\* passes every limb is at most Radix and every carry at most one.
BigCarry(c) == BigResolve(BigPass(BigPass(BigPass(c))))

BigAdd(a, b) ==
    BigCarry([k \in 1..Max(Len(a), Len(b)) |-> BigLimb(a, k) + BigLimb(b, k)])

BigMul(a, b) ==
    BigCarry([k \in 1..(Len(a) + Len(b)) |->
                 Sum([i \in 1..Len(a) |-> a[i] * BigLimb(b, k + 1 - i)])])

BigLess(a, b) ==
    \E i \in 1..Max(Len(a), Len(b)) :
        /\ BigLimb(a, i) < BigLimb(b, i)
        /\ \A j \in (i + 1)..Max(Len(a), Len(b)) : BigLimb(a, j) = BigLimb(b, j)

BigIsZero(a) == \A i \in 1..Len(a) : a[i] = 0

\* a * 2^s and floor(a / 2^s).
BigShiftLeft(a, s) ==
    BigTrim([k \in 1..(Len(a) + (s \div LimbBits) + 1) |->
                ((BigLimb(a, k - (s \div LimbBits)) * (2 ^ (s % LimbBits)))
                     % Radix)
                + (BigLimb(a, k - 1 - (s \div LimbBits))
                       \div (2 ^ (LimbBits - (s % LimbBits))))])
BigShiftRight(a, s) ==
    BigTrim([k \in 1..Len(a) |->
                (BigLimb(a, k + (s \div LimbBits)) \div (2 ^ (s % LimbBits)))
                + ((BigLimb(a, k + 1 + (s \div LimbBits))
                        % (2 ^ (s % LimbBits)))
                   * (2 ^ (LimbBits - (s % LimbBits))))])

\* The number of binary digits of a, its binary digit j (from 0) and whether
\* one of its s lowest binary digits is set.
BigBits(a) ==
    IF BigTop(a) = 0 THEN 0
    ELSE (LimbBits * (BigTop(a) - 1))
         + Cardinality({k \in 0..(LimbBits - 1) : 2 ^ k <= a[BigTop(a)]})
BigBit(a, j) ==
    (BigLimb(a, (j \div LimbBits) + 1) \div (2 ^ (j % LimbBits))) % 2
BigLowBits(a, s) == \E j \in 0..(s - 1) : BigBit(a, j) = 1

\* Unit is 2^FracDigits times Five.
Five == 5 ^ FracDigits

MantissaBits == 53

\* Radix^t modulo Five, by squaring, and the first n of these powers.
RECURSIVE RadixPower(_)
RadixPower(t) ==
    IF t = 0 THEN 1
    ELSE CHOOSE r \in {(((h * h) % Five) * (Radix ^ (t % 2))) % Five :
                          h \in {RadixPower(t \div 2)}} : TRUE
RadixPowers(n) == SubSeq([t \in 1..n |-> RadixPower(t - 1)], 1, n)

\* The limbs i..Len(a) of a, as a number, modulo Five, given the powers pw.
BigRemFrom(a, i, pw) ==
    Sum([j \in i..Len(a) |-> (a[j] * pw[j - i + 1]) % Five]) % Five

\* <<floor(a / Five), a modulo Five>>
BigDivGiven(a, pw) ==
    <<BigTrim([i \in 1..Len(a) |->
                  (BigRemFrom(a, i + 1, pw) * Radix + a[i]) \div Five]),
      BigRemFrom(a, 1, pw)>>
BigDivRem(a) ==
    CHOOSE r \in {BigDivGiven(a, pw) : pw \in {RadixPowers(Len(a))}} : TRUE

\* <<floor(a / Five^k), whether the division left a remainder>>, one half
\* of the k divisions after the other.
RECURSIVE BigDivFives(_, _)
BigDivAgain(lo, k) ==
    CHOOSE r \in {<<hi[1], lo[2] \/ hi[2]>> :
                     hi \in {BigDivFives(lo[1], k)}} : TRUE
BigDivFives(a, k) ==
    IF k = 0 THEN <<a, FALSE>>
    ELSE IF k = 1
    THEN CHOOSE r \in {<<q[1], q[2] # 0>> : q \in {BigDivRem(a)}} : TRUE
    ELSE CHOOSE r \in {BigDivAgain(lo, k - (k \div 2)) :
                          lo \in {BigDivFives(a, k \div 2)}} : TRUE

\* 5^n, by squaring.
RECURSIVE BigPow5(_)
BigPow5(n) ==
    IF n <= FracDigits THEN BigOfInt(5 ^ n)
    ELSE CHOOSE r \in {BigMul(BigMul(h, h), BigOfInt(5 ^ (n % 2))) :
                          h \in {BigPow5(n \div 2)}} : TRUE

\* floor(x * y / Unit): the exact product of two amounts, as an amount.
MulAmount(x, y) ==
    BigToInt(BigDivRem(BigShiftRight(BigMul(BigOfInt(x), BigOfInt(y)),
                                     FracDigits))[1])

\* An amount written with five decimals: D5(123456) is 1.23456.
D5(n) == n * 10 ^ (FracDigits - 5)

(***************************************************************************)
(* float64.  A finite value is (-1)^neg * m * 2^e with m < 2^53 (limbs);   *)
(* dir tells how the last rounding moved it: up (1), down (-1) or not at   *)
(* all (0).  Exponents stay far from the limits of the format for the      *)
(* amounts of the model, so overflow and subnormal values do not arise.    *)
(***************************************************************************)
NaN == "NaN"
PosInf == "+Inf"
NegInf == "-Inf"
Specials == {NaN, PosInf, NegInf}
\* Whether a float64 of the model is one of them rather than an amount.
SpecialTexts == {ToString(s) : s \in Specials}
IsSpecial(x) == ToString(x) \in SpecialTexts

F64Finite(neg, m, e, dir) ==
    [class |-> "finite", neg |-> neg, m |-> m, e |-> e, dir |-> dir]

\* The mantissa m after it was rounded up: it has one binary digit too many
\* only as a power of two.
F64Up(neg, m, e) ==
    IF BigBits(m) > MantissaBits
    THEN F64Finite(neg, BigShiftRight(m, 1), e + 1, 1)
    ELSE F64Finite(neg, m, e, 1)

\* m * 2^e rounded to nearest, ties to even: round is the highest binary
\* digit dropped below m and sticky tells whether anything was dropped below
\* that.
F64Nearest(neg, m, e, round, sticky) ==
    IF round /\ (sticky \/ BigLimb(m, 1) % 2 = 1)
    THEN F64Up(neg, BigAdd(m, <<1>>), e)
    ELSE F64Finite(neg, m, e, IF round \/ sticky THEN -1 ELSE 0)

\* The same for q, of which the s lowest binary digits are dropped.
F64Narrowed(neg, q, e, sticky, s) ==
    F64Nearest(neg, BigShiftRight(q, s), e + s,
               s > 0 /\ BigBit(q, s - 1) = 1,
               sticky \/ BigLowBits(q, s - 1))

\* q * 2^e (and something more when sticky) rounded to the nearest float64,
\* ties to even.
F64Round(neg, q, e, sticky) ==
    F64Narrowed(neg, q, e, sticky, Max(0, BigBits(q) - MantissaBits))

\* The same within the exponent range of a float64: below 2^-1022 the
\* mantissa has fewer binary digits (its lowest stands for 2^-1074, and what
\* is below half of that is zero), and 2^1024 or more is out of range.
MinExponent == 3 - (2 ^ 10) - MantissaBits
F64InRange(neg, q, e, sticky) ==
    F64Narrowed(neg, q, e, sticky,
                Max(Max(0, BigBits(q) - MantissaBits), MinExponent - e))
F64Overflows(a) == BigBits(a.m) + a.e > 2 ^ 10

F64Special(class) ==
    [class |-> class, neg |-> class = NegInf, m |-> << >>, e |-> 0, dir |-> 0]

\* The float64 nearest to the quotient d[1] * 2^-GuardBits of a division by
\* Five that left the remainder d[2].
GuardBits == 74
F64Quotient(neg, d) == F64Round(neg, d[1], 0 - GuardBits - FracDigits, d[2] # 0)

\* The float64 an amount stands for.
F64(x) ==
    IF IsSpecial(x) THEN F64Special(x)
    ELSE F64Quotient(x < 0, BigDivRem(BigShiftLeft(BigOfInt(Abs(x)), GuardBits)))

F64IsZero(a) == a.class = "finite" /\ BigIsZero(a.m)

\* a * b
F64Mul(a, b) ==
    IF a.class = NaN \/ b.class = NaN THEN F64Special(NaN)
    ELSE IF a.class # "finite" \/ b.class # "finite"
    THEN IF F64IsZero(a) \/ F64IsZero(b) THEN F64Special(NaN)
         ELSE F64Special(IF a.neg # b.neg THEN NegInf ELSE PosInf)
    ELSE F64Round(a.neg # b.neg, BigMul(a.m, b.m), a.e + b.e, FALSE)

\* The mantissa of a written for the exponent e <= a.e.
F64Aligned(a, e) == BigShiftLeft(a.m, a.e - e)

\* a + b for finite a, b >= 0
F64Add(a, b) ==
    F64Round(FALSE, BigAdd(F64Aligned(a, Min(a.e, b.e)),
                           F64Aligned(b, Min(a.e, b.e))),
             Min(a.e, b.e), FALSE)

\* |a| < |b| for finite a, b
F64MagLess(a, b) ==
    BigLess(F64Aligned(a, Min(a.e, b.e)), F64Aligned(b, Min(a.e, b.e)))

\* a < b
F64Less(a, b) ==
    IF a.class = NaN \/ b.class = NaN THEN FALSE
    ELSE IF a.class = PosInf \/ b.class = NegInf THEN FALSE
    ELSE IF a.class = NegInf \/ b.class = PosInf THEN TRUE
    ELSE IF F64IsZero(a) /\ F64IsZero(b) THEN FALSE
    ELSE IF a.neg # b.neg THEN a.neg
    ELSE IF a.neg THEN F64MagLess(b, a)
    ELSE F64MagLess(a, b)

\* a < b for the texts of two float64 of which one at least is special.
SpecialLess(x, y) ==
    /\ x # ToString(NaN) /\ y # ToString(NaN)
    /\ x # ToString(PosInf) /\ y # ToString(NegInf)

\* a < b for float64 that are amounts or special.
Less(a, b) ==
    IF IsSpecial(a) \/ IsSpecial(b) THEN SpecialLess(ToString(a), ToString(b))
    ELSE a < b
(***************************************************************************)
(* Text: strconv.FormatFloat and strconv.ParseFloat.                       *)
(***************************************************************************)
DigitChars == <<"0", "1", "2", "3", "4", "5", "6", "7", "8", "9">>
IsDigit(c) == \E d \in 1..10 : DigitChars[d] = c
DigitVal(c) == (CHOOSE d \in 1..10 : DigitChars[d] = c) - 1

HexLetters == <<"a", "b", "c", "d", "e", "f">>
IsHexLetter(c) == \E d \in 1..6 : HexLetters[d] = c
HexVal(c) ==
    IF IsDigit(c) THEN DigitVal(c)
    ELSE 9 + (CHOOSE d \in 1..6 : HexLetters[d] = c)

\* The lower-case letter of an upper-case one (of those a number may hold).
Lower(c) ==
    CASE c = "A" -> "a" [] c = "B" -> "b" [] c = "C" -> "c" [] c = "D" -> "d"
      [] c = "E" -> "e" [] c = "F" -> "f" [] c = "I" -> "i" [] c = "N" -> "n"
      [] c = "P" -> "p" [] c = "T" -> "t" [] c = "X" -> "x" [] c = "Y" -> "y"
      [] OTHER -> c

\* The decimal digits of a non-negative integer, IntDigits(n) of them.
IntDigits(n) == 1 + Cardinality({k \in 1..9 : 10 ^ k <= n})
IntText(n) ==
    [i \in 1..IntDigits(n) |->
        DigitChars[((n \div (10 ^ (IntDigits(n) - i))) % 10) + 1]]

\* The first k digits of the FracDigits-digit fraction f, zero padded.
FracText(f, k) ==
    [i \in 1..k |->
        IF i <= FracDigits
        THEN DigitChars[((f \div (10 ^ (FracDigits - i))) % 10) + 1]
        ELSE "0"]

\* A decimal tie between lo and lo + m, decided by where the float64 lies
\* (dir) and, when it lies on the tie, for the even multiple.
RoundTie(lo, m, dir) ==
    IF dir > 0 THEN lo + m
    ELSE IF dir < 0 THEN lo
    ELSE IF (lo \div m) % 2 = 0 THEN lo ELSE lo + m

\* The amount value >= 0 rounded to a multiple of m as FormatFloat rounds
\* its float64: to nearest; on a decimal tie the float64 decides, which lies
\* above the amount, below it, or (a dyadic amount) on it, and then the
\* even multiple is taken.
RoundNearest(value, m) ==
    IF 2 * (value % m) < m THEN value - (value % m)
    ELSE IF 2 * (value % m) > m THEN value - (value % m) + m
    ELSE RoundTie(value - (value % m), m, F64(value).dir)

\* The number of zeros that end the FracDigits-digit fraction f.
TrailingZeros(f) == Cardinality({k \in 1..FracDigits : f % (10 ^ k) = 0})

\* The text of the amount v >= 0 with precision digits after the point.
FixedText(v, precision) ==
    IntText(v \div Unit) \o
    (IF precision > 0 THEN <<".">> \o FracText(v % Unit, precision) ELSE << >>)

\* The shortest text of the amount v >= 0.
ShortestText(v) ==
    FixedText(v, FracDigits - TrailingZeros(v % Unit))

\* strconv.FormatFloat(value, 'f', precision, 64); precision -1 asks for the
\* shortest text that parses back to value.
FormatFloat(value, precision) ==
    IF IsSpecial(value)
    THEN CASE value = NaN -> <<"N", "a", "N">>
           [] value = PosInf -> <<"+", "I", "n", "f">>
           [] value = NegInf -> <<"-", "I", "n", "f">>
    ELSE (IF value < 0 THEN <<"-">> ELSE << >>) \o
         (IF precision < 0 THEN ShortestText(Abs(value))
          ELSE FixedText(RoundNearest(Abs(value),
                             10 ^ (FracDigits - Min(precision, FracDigits))),
                         precision))


\* The exponent digits of s from i on (underscores skipped), capped as
\* strconv caps it.
RECURSIVE ExponentValue(_, _, _)
ExponentValue(s, i, e) ==
    IF i > Len(s) \/ ~(IsDigit(s[i]) \/ s[i] = "_") THEN [e |-> e, end |-> i]
    ELSE IF s[i] = "_" THEN ExponentValue(s, i + 1, e)
    ELSE ExponentValue(s, i + 1,
                       IF e < 10000 THEN e * 10 + DigitVal(s[i]) ELSE e)

\* How many characters of s from i on match word, letter case aside.
RECURSIVE CommonPrefixLen(_, _, _)
CommonPrefixLen(s, i, word) ==
    IF i > Len(s) \/ word = << >> \/ Lower(s[i]) # Head(word) THEN 0
    ELSE 1 + CommonPrefixLen(s, i + 1, Tail(word))

\* strconv's special: NaN, and Inf or Infinity with an optional sign.
\* <<value, characters taken>>, none taken when s is none of them.
ParseSpecial(s) ==
    IF s = << >> THEN <<0, 0>>
    ELSE
    LET signed == s[1] \in {"+", "-"}
        from   == IF signed THEN 2 ELSE 1
        inf    == CommonPrefixLen(s, from, <<"i", "n", "f", "i", "n", "i", "t", "y">>)
        n      == IF 3 < inf /\ inf < 8 THEN 3 ELSE inf
    IN  IF n = 3 \/ n = 8
        THEN <<IF s[1] = "-" THEN NegInf ELSE PosInf, from - 1 + n>>
        ELSE IF ~signed /\ CommonPrefixLen(s, 1, <<"n", "a", "n">>) = 3
        THEN <<NaN, 3>>
        ELSE <<0, 0>>

\* Whether the character i of s may belong to a mantissa.
MantissaChar(s, i, hex) ==
    \/ s[i] \in {"_", "."}
    \/ IsDigit(s[i])
    \/ hex /\ IsHexLetter(Lower(s[i]))

\* Where the mantissa of s that starts at from ends: at the first character
\* that cannot belong to it, a second point included, or past the text.
MantissaStops(s, from, hex) ==
    {i \in from..Len(s) :
        \/ ~MantissaChar(s, i, hex)
        \/ s[i] = "." /\ \E j \in from..(i - 1) : s[j] = "."}
    \cup {Len(s) + 1}
MantissaEnd(s, from, hex) ==
    CHOOSE i \in MantissaStops(s, from, hex) :
        \A j \in MantissaStops(s, from, hex) : i <= j

\* The characters of s at the positions P, in their order, in lower case.
Picked(s, P) ==
    SubSeq([k \in 1..Cardinality(P) |->
               Lower(s[CHOOSE i \in P : Cardinality({j \in P : j <= i}) = k])],
           1, Cardinality(P))

\* The mantissa of s between from and end, its point at the position point
\* (end when it has none).
MantissaAround(s, from, end, point) ==
    [ip |-> Picked(s, {i \in from..(point - 1) : s[i] # "_"}),
     fp |-> Picked(s, {i \in (point + 1)..(end - 1) : s[i] # "_"}),
     sawdot |-> point < end,
     underscores |-> \E i \in from..(end - 1) : s[i] = "_",
     end |-> end]
MantissaUpTo(s, from, end) ==
    MantissaAround(s, from, end,
        IF \E i \in from..(end - 1) : s[i] = "."
        THEN CHOOSE i \in from..(end - 1) : s[i] = "."
        ELSE end)

\* strconv's readFloat: the digits of the mantissa before and after the
\* point, from the position from on.
ScanMantissa(s, from, hex) ==
    MantissaUpTo(s, from, MantissaEnd(s, from, hex))

\* strconv's underscoreOK: underscores only between digits, or between a
\* base prefix and a digit.  saw is "0" after a digit, "_" after an
\* underscore, "!" after anything else and "^" at the start.
RECURSIVE UnderscoreScan(_, _, _, _)
UnderscoreScan(s, i, hex, saw) ==
    IF i > Len(s) THEN saw # "_"
    ELSE LET c == Lower(s[i]) IN
         IF IsDigit(c) \/ (hex /\ IsHexLetter(c))
         THEN UnderscoreScan(s, i + 1, hex, "0")
         ELSE IF c = "_"
         THEN saw = "0" /\ UnderscoreScan(s, i + 1, hex, "_")
         ELSE saw # "_" /\ UnderscoreScan(s, i + 1, hex, "!")

UnderscoreOK(s) ==
    LET t == IF s # << >> /\ s[1] \in {"+", "-"} THEN Tail(s) ELSE s
        prefixed == Len(t) >= 2 /\ t[1] = "0" /\ Lower(t[2]) \in {"b", "o", "x"}
    IN  IF prefixed THEN UnderscoreScan(t, 3, Lower(t[2]) = "x", "0")
        ELSE UnderscoreScan(t, 1, FALSE, "^")

\* The number written by the decimal digits s.
DigitsValue(s) ==
    Sum([i \in 1..Len(s) |->
            IF s[i] = "0" THEN 0 ELSE DigitVal(s[i]) * (10 ^ (Len(s) - i))])

\* The number of digits of ds before the point when written without
\* leading zeros (0 or less for a value below 1).
Magnitude(ds, point) ==
    LET nz == {j \in 1..Len(ds) : ds[j] # "0"}
    IN  IF nz = {} THEN 0
        ELSE point + 1 - (CHOOSE j \in nz : \A k \in nz : j <= k)

\* Whether the digits are written as an amount: nothing but zeros below
\* 10^-FracDigits, and few enough digits before the point for the count of
\* units to be an integer of the model.
IsAmount(ds, point) ==
    /\ \A j \in 1..Len(ds) : j > point + FracDigits => ds[j] = "0"
    /\ Magnitude(ds, point) <= 9 - FracDigits

\* The number written by the decimal digits ds, as limbs: the first half
\* of the digits, times the power of ten of the second half, plus that.
RECURSIVE BigOfDigits(_)
BigOfHalves(high, low, n) ==
    BigAdd(BigShiftLeft(BigMul(high, BigPow5(n)), n), low)
BigOfDigits(ds) ==
    IF Len(ds) <= FracDigits THEN BigOfInt(DigitsValue(ds))
    ELSE CHOOSE r \in
             {BigOfHalves(h[1], h[2], Len(ds) \div 2) :
                 h \in {<<BigOfDigits(SubSeq(ds, 1, Len(ds) - (Len(ds) \div 2))),
                          BigOfDigits(SubSeq(ds, Len(ds) - (Len(ds) \div 2) + 1,
                                             Len(ds)))>>}} : TRUE

\* The number written by the hexadecimal digits hs, as limbs.
BigOfHex(hs) ==
    BigCarry([k \in 1..(((4 * Len(hs)) \div LimbBits) + 1) |->
                 Sum([i \in 1..Len(hs) |->
                         BigLimb(BigShiftLeft(<<HexVal(hs[i])>>,
                                              4 * (Len(hs) - i)), k)])])

\* The float64 nearest to d * 10^p.  For p < 0, d is divided by 10^-p: by
\* Five as many times as needed (Fives), after the factors of 5 this has too
\* many are put into d and with enough binary digits kept below the point
\* for the quotient to hold more than a mantissa (5^n is below 2^(3n)), and
\* by 2^-p.
DecimalGuard(n) == (3 * n) + MantissaBits + 11
Fives(n) == (n + FracDigits - 1) \div FracDigits
F64Decimal(neg, d, p) ==
    IF p >= 0
    THEN CHOOSE a \in {F64InRange(neg, x, p, FALSE) :
                          x \in {BigMul(d, BigPow5(p))}} : TRUE
    ELSE CHOOSE a \in
             {F64InRange(neg, q[1], p - DecimalGuard(0 - p), q[2]) :
                 q \in {BigDivFives(
                            BigShiftLeft(
                                BigMul(d, BigOfInt(5 ^ ((Fives(0 - p) * FracDigits)
                                                          + p))),
                                DecimalGuard(0 - p)),
                            Fives(0 - p))}} : TRUE

\* The count of units of 10^-FracDigits nearest to the magnitude of the
\* finite float64 a, as limbs (of more than 31 binary digits when a is 2^31
\* or more).
UnitsScaled(x, e) ==
    IF e >= 0 THEN BigShiftLeft(x, Min(e, 31))
    ELSE BigAdd(BigShiftRight(x, 0 - e), BigOfInt(BigBit(x, (0 - e) - 1)))
NearestUnits(a) == UnitsScaled(BigMul(a.m, BigOfInt(Unit)), a.e)

\* Whether the finite float64 a is the one the amount of u units stands for.
F64IsAmount(a, u) ==
    /\ BigBits(u) <= 31
    /\ ~F64MagLess(a, F64(BigToInt(u)))
    /\ ~F64MagLess(F64(BigToInt(u)), a)

Signed(neg, v) == IF neg THEN 0 - v ELSE v

\* The value of the float64 a read from a text: zero, or out of range when
\* too large, or the amount it stands for when it stands for one, or itself.
F64Value(a, u) ==
    IF F64IsZero(a) THEN [val |-> 0, err |-> FALSE]
    ELSE IF F64Overflows(a)
    THEN [val |-> IF a.neg THEN NegInf ELSE PosInf, err |-> TRUE]
    ELSE IF F64IsAmount(a, u)
    THEN [val |-> Signed(a.neg, BigToInt(u)), err |-> FALSE]
    ELSE [val |-> a, err |-> FALSE]
ParsedFloat(a) ==
    CHOOSE r \in {F64Value(f, u) : <<f, u>> \in {<<a, NearestUnits(a)>>}} : TRUE

\* The number of binary digits of mant * 2^e2 before the point.
BinaryMagnitude(mant, e2) == IF BigIsZero(mant) THEN 0 ELSE BigBits(mant) + e2

\* The float64 nearest to mant * 2^e2, mant as limbs: out of range with more
\* than 1024 binary digits before the point, zero below 2^-1075.
BinaryAmount(neg, mant, e2) ==
    IF BinaryMagnitude(mant, e2) > 2 ^ 10
    THEN [val |-> IF neg THEN NegInf ELSE PosInf, err |-> TRUE]
    ELSE IF BinaryMagnitude(mant, e2) < MinExponent
    THEN [val |-> 0, err |-> FALSE]
    ELSE ParsedFloat(F64InRange(neg, mant, e2, FALSE))

\* The float64 nearest to the number of the decimal digits ds with the point
\* after the first point of them: out of range with 310 digits or more
\* before the point whatever the digits are, the amount written when the
\* digits write one, and zero below 10^-324.
DecimalAmount(neg, ds, point) ==
    LET digit(j) == IF 1 <= j /\ j <= Len(ds) THEN ds[j] ELSE "0"
    IN  IF Magnitude(ds, point) > 309
        THEN [val |-> IF neg THEN NegInf ELSE PosInf, err |-> TRUE]
        ELSE IF IsAmount(ds, point)
        THEN [val |-> Signed(neg,
                          DigitsValue([j \in 1..Max(point, 0) |-> digit(j)]) * Unit
                          + DigitsValue([j \in 1..FracDigits |-> digit(point + j)])),
              err |-> FALSE]
        ELSE IF Magnitude(ds, point) < 0 - 323
        THEN [val |-> 0, err |-> FALSE]
        ELSE CHOOSE r \in {ParsedFloat(F64Decimal(neg, d, point - Len(ds))) :
                              d \in {BigOfDigits(ds)}} : TRUE

\* The number read, given its sign, its digits, the position of the point
\* among them and, for a hexadecimal number, its binary exponent.
ParsedNumber(neg, hex, digits, point, e2) ==
    IF hex
    THEN CHOOSE r \in {BinaryAmount(neg, mant, e2) :
                          mant \in {BigOfHex(digits)}} : TRUE
    ELSE DecimalAmount(neg, digits, point)

\* The text with the mantissa m and the exponent ex read (exp its value
\* with its sign, efrom where its digits start): an error unless there are
\* digits, the exponent is complete (and present in a hexadecimal number),
\* the underscores are placed well and nothing follows.
ParsedExponent(text, neg, hex, m, hasExp, expOk, efrom, ex, exp) ==
    IF /\ Len(m.ip) + Len(m.fp) > 0
       /\ hasExp => expOk
       /\ hex => hasExp
       /\ (m.underscores \/ \E i \in efrom..(ex.end - 1) : text[i] = "_")
             => UnderscoreOK(SubSeq(text, 1, ex.end - 1))
       /\ ex.end = Len(text) + 1
    THEN ParsedNumber(neg, hex, m.ip \o m.fp, Len(m.ip) + exp,
                      exp - 4 * Len(m.fp))
    ELSE [val |-> 0, err |-> TRUE]

\* The exponent read, when the mantissa is followed by a complete one.
ReadExponent(text, neg, hex, m, hasExp, esigned, efrom, expOk) ==
    IF expOk
    THEN ParsedExponent(text, neg, hex, m, hasExp, expOk, efrom,
             ExponentValue(text, efrom, 0),
             Signed(esigned /\ text[m.end + 1] = "-",
                    ExponentValue(text, efrom, 0).e))
    ELSE ParsedExponent(text, neg, hex, m, hasExp, expOk, efrom,
             [e |-> 0, end |-> m.end], 0)

\* Where the exponent's digits start, past the exponent character and its
\* sign.
ExponentFrom(text, neg, hex, m, hasExp, esigned) ==
    ReadExponent(text, neg, hex, m, hasExp, esigned,
        IF esigned THEN m.end + 2 ELSE m.end + 1,
        /\ hasExp
        /\ (IF esigned THEN m.end + 2 ELSE m.end + 1) <= Len(text)
        /\ IsDigit(text[IF esigned THEN m.end + 2 ELSE m.end + 1]))

\* The mantissa m read: whether an exponent character follows it.
ReadMantissa(text, neg, hex, m, hasExp) ==
    ExponentFrom(text, neg, hex, m, hasExp,
        hasExp /\ m.end + 1 <= Len(text) /\ text[m.end + 1] \in {"+", "-"})

\* strconv's readFloat on a text that is no special value, its mantissa
\* starting at from.
ReadFloat(text, neg, hex, m) ==
    ReadMantissa(text, neg, hex, m,
        m.end <= Len(text)
        /\ Lower(text[m.end]) = (IF hex THEN "p" ELSE "e"))

\* The mantissa is read once, and the rest from what was read.
ReadNumber(text, from, hex) ==
    CHOOSE r \in {ReadFloat(text, text[1] = "-", hex, m) :
                     m \in {ScanMantissa(text, IF hex THEN from + 2 ELSE from,
                                         hex)}} : TRUE

\* The text after its special values were tried.
ParseAfterSpecial(text, special, from) ==
    IF special[2] > 0
    THEN IF special[2] = Len(text)
         THEN [val |-> special[1], err |-> FALSE]
         ELSE [val |-> 0, err |-> TRUE]
    ELSE ReadNumber(text, from,
             /\ Len(text) >= from + 2
             /\ text[from] = "0" /\ Lower(text[from + 1]) = "x")

\* strconv.ParseFloat(text, 64): the value and whether it failed.  A text
\* that is no number yields 0 and an error; a number beyond the float64
\* range yields an infinity and an error.  Accepted are decimal numbers
\* with an optional sign, point and exponent, hexadecimal numbers with a
\* binary exponent, underscores between digits, NaN, Inf and Infinity.
\* The value is the float64 nearest to the number written: as the amount
\* it stands for, or as itself when it stands for none.
ParseFloat(text) ==
    IF text = << >> THEN [val |-> 0, err |-> TRUE]
    ELSE ParseAfterSpecial(text, ParseSpecial(text),
                           IF text[1] \in {"+", "-"} THEN 2 ELSE 1)

\* The number of characters of s after its point, 0 when it has none.
AfterPoint(s) ==
    IF \E i \in 1..Len(s) : s[i] = "."
    THEN Len(s) - (CHOOSE i \in 1..Len(s) : s[i] = ".")
    ELSE 0

\* model.NumDecPlaces: the number of digits after the point in the shortest
\* text of v.
NumDecPlaces(v) == AfterPoint(FormatFloat(v, -1))

(***************************************************************************)
(* The venue: symbols, assets, the exchange information it supplies at     *)
(* construction, its prices and its responses.                             *)
(***************************************************************************)
Symbols == {"BTCUSDT", "ETHUSDT"}
UnknownSymbol == "XRPBRL"
Assets == {"BTC", "ETH", "USDT"}

\* A numeric field as the venue writes it: eight decimals.
VenueText(v) == FormatFloat(v, 8)
\* A field that is no number.
Malformed == <<"N", "/", "A">>

Filters(base, quote, minQty, maxQty, step, minPrice, maxPrice, tick) ==
    [BaseAsset |-> base, QuoteAsset |-> quote,
     minQty |-> VenueText(minQty), maxQty |-> VenueText(maxQty),
     stepSize |-> VenueText(step),
     minPrice |-> VenueText(minPrice), maxPrice |-> VenueText(maxPrice),
     tickSize |-> VenueText(tick)]

\* Exchange information the venue may supply: steps and ticks that are
\* powers of ten, and steps and ticks that are not.
EthFilters ==
    Filters("ETH", "USDT", D5(1000), D5(200000), D5(1000),
            D5(1000), D5(100000000), D5(10000))
DecimalSteps ==
    [s \in Symbols |->
        IF s = "BTCUSDT"
        THEN Filters("BTC", "USDT", D5(100), D5(200000), D5(100),
                     D5(1000), D5(100000000), D5(1000))
        ELSE EthFilters]
OtherSteps ==
    [s \in Symbols |->
        IF s = "BTCUSDT"
        THEN Filters("BTC", "USDT", D5(500), D5(200000), D5(500),
                     D5(5000), D5(100000000), D5(5000))
        ELSE EthFilters]
ExchangeInfos == {DecimalSteps, OtherSteps}

\* Maker and taker commissions of the account, in basis points.
Commissions == {[maker |-> 10, taker |-> 20]}

\* Free balances of the account at the venue when the session starts.  With
\* the third, a market buy of 1.2342 at 100 and 20 basis points costs the
\* whole balance.
Ledgers ==
    {[a \in Assets |-> IF a = "USDT" THEN D5(10000000) ELSE D5(200000)],
     [a \in Assets |-> IF a = "USDT" THEN D5(12360000) ELSE D5(100000)],
     [a \in Assets |-> IF a = "USDT" THEN D5(12366684) ELSE D5(100000)]}

\* The close of the venue's latest one-minute candle of a symbol.
ClosePrice(symbol) == IF symbol = "BTCUSDT" THEN D5(10000000) ELSE D5(5000000)

(***************************************************************************)
(* The adapter.                                                            *)
(***************************************************************************)
VARIABLES
    credentials,  \* Binance.APIKey and Binance.APISecret are both set
    newErr,       \* the error NewBinance returned
    assetsInfo,   \* Binance.assetsInfo: symbol -> AssetInfo
    userInfo,     \* Binance.userInfo
    ledger,       \* the venue's free balance of each asset
    venueOrders,  \* the venue's orders of the account, by order id
    call,         \* per caller: the order submission in progress
    ncalls,       \* submissions started so far
    cancelled     \* what the latest call of Cancel was for and returned

\* The candle subscription (described with its actions below).
VARIABLES
    sub,            \* the symbol subscribed to ("" before the call)
    gpc,            \* where the subscription's goroutine is
    rpc,            \* where the connection's reader is
    conn,           \* the connection: none, live, failed, broken, stopped
    done,           \* the done channel of WsKlineServe is closed
    cerrClosed,     \* cerr is closed
    ccandleClosed,  \* ccandle is closed
    produced,       \* the kline events handed to the event handler
    received,       \* the candles the consumer received from ccandle
    errs,           \* the errors the consumer received from cerr
    badMessages,    \* undecodable messages so far
    consumer,       \* the consumer: running, or gone once ccandle closed
    sendOnClosed    \* a send was attempted on a closed channel (a panic)

adapterVars == <<credentials, newErr, assetsInfo, userInfo>>
orderVars == <<adapterVars, ledger, venueOrders, call, ncalls, cancelled>>
feedVars == <<sub, gpc, rpc, conn, done, cerrClosed, ccandleClosed, produced,
              received, errs, badMessages, consumer, sendOnClosed>>
vars == <<orderVars, feedVars>>

ErrNil == "nil"
ErrInvalidAsset == "ErrInvalidAsset"
ErrInvalidQuantity == "ErrInvalidQuantity"
ErrInsufficientFunds == "ErrInsufficientFunds"
\* An error returned by a request to the venue, passed on as it is.
ErrVenue == "venue error"
\* NewBinance: the ping failed.
ErrPing == "binance ping fail"
\* validate: candles[0] of an empty list, a run-time panic that ends the
\* caller.
Panic == "panic: index out of range"

\* NewBinance: the trade limits of one symbol from its LOT_SIZE and
\* PRICE_FILTER filters; parse errors are discarded.
AssetInfo(info, step, tick) ==
    [BaseAsset |-> info.BaseAsset, QuoteAsset |-> info.QuoteAsset,
     MinQuantity |-> ParseFloat(info.minQty).val,
     MaxQuantity |-> ParseFloat(info.maxQty).val,
     StepSize |-> step,
     QtyDecimalPrecision |-> NumDecPlaces(step),
     MinPrice |-> ParseFloat(info.minPrice).val,
     MaxPrice |-> ParseFloat(info.maxPrice).val,
     TickSize |-> tick,
     PriceDecimalPrecision |-> NumDecPlaces(tick)]
TradeLimits(info) ==
    AssetInfo(info, ParseFloat(info.stepSize).val,
              ParseFloat(info.tickSize).val)

\* The venue's answers to the requests of NewBinance: an error, or the
\* account with its commissions, or the exchange information.
AccountInfo(fail, commissions) ==
    [err |-> fail, MakerCommission |-> commissions.maker,
     TakerCommission |-> commissions.taker]
ExchangeInfo(fail, symbols) == [err |-> fail, Symbols |-> symbols]

\* NewBinance, given whether the options set both credentials and the
\* venue's answers to the ping, the account request (made with credentials
\* only) and the exchange information request: the error, or the adapter
\* with its asset table and the user's commissions (zero without
\* credentials), bp / 10000.0 as an amount.
NoUserInfo == [MakerCommission |-> 0, TakerCommission |-> 0]
NoAdapter(err) ==
    [err |-> err, assetsInfo |-> << >>, userInfo |-> NoUserInfo]
NewBinance(withCredentials, pingFails, acc, results) ==
    IF pingFails THEN NoAdapter(ErrPing)
    ELSE IF withCredentials /\ acc.err THEN NoAdapter(ErrVenue)
    ELSE IF results.err THEN NoAdapter(ErrVenue)
    ELSE [err |-> ErrNil,
          assetsInfo |-> [s \in DOMAIN results.Symbols |->
                             TradeLimits(results.Symbols[s])],
          userInfo |->
             IF withCredentials
             THEN [MakerCommission |->
                      (acc.MakerCommission * Unit) \div CommissionDivisor,
                   TakerCommission |->
                      (acc.TakerCommission * Unit) \div CommissionDivisor]
             ELSE NoUserInfo]

SideTypeBuy == "BUY"
SideTypeSell == "SELL"
OrderTypeLimit == "LIMIT"
OrderTypeMarket == "MARKET"
OrderTypeLimitMaker == "LIMIT_MAKER"
OrderTypeStopLoss == "STOP_LOSS"
OrderTypeStopLossLimit == "STOP_LOSS_LIMIT"
OrderTypeTakeProfit == "TAKE_PROFIT"

\* The venue's answer to the account request: an error, or the balances as
\* text, with the fields of the assets in bad malformed.
AccountResponse(fail, bad) ==
    [err |-> fail,
     Balances |-> [a \in Assets |->
        [Free |-> IF a \in bad THEN Malformed ELSE VenueText(ledger[a]),
         Locked |-> IF a \in bad THEN Malformed ELSE VenueText(0)]]]

\* Binance.Account: the balances parsed, parse errors discarded.
Account(resp) ==
    IF resp.err
    THEN [err |-> TRUE, Balances |-> << >>]
    ELSE [err |-> FALSE,
          Balances |-> [a \in DOMAIN resp.Balances |->
             [Free |-> ParseFloat(resp.Balances[a].Free).val,
              Lock |-> ParseFloat(resp.Balances[a].Locked).val]]]

\* model.Account.Balance: the balance of an asset, zero when it has none.
Balance(account, tick) ==
    IF tick \in DOMAIN account.Balances
    THEN account.Balances[tick]
    ELSE [Free |-> 0, Lock |-> 0]

\* The venue's answer to the request for the latest candle of a symbol: an
\* error, or a list of one candle, or of none.
KlinesResponse(symbol, fail, bad, empty) ==
    [err |-> fail,
     data |-> IF empty THEN << >> ELSE
             <<[Open |-> IF bad THEN Malformed ELSE VenueText(ClosePrice(symbol)),
                 High |-> IF bad THEN Malformed ELSE VenueText(ClosePrice(symbol)),
                 Low |-> IF bad THEN Malformed ELSE VenueText(ClosePrice(symbol)),
                 Close |-> IF bad THEN Malformed ELSE VenueText(ClosePrice(symbol)),
                 Volume |-> IF bad THEN Malformed ELSE VenueText(Unit)]>>]
\* No answer: validate returned before it asked for a candle.
NoKlines == [err |-> TRUE, data |-> << >>]

\* CandleFromKline: parse errors are discarded.
CandleFromKline(symbol, k) ==
    [Symbol |-> symbol,
     Open |-> ParseFloat(k.Open).val, Close |-> ParseFloat(k.Close).val,
     High |-> ParseFloat(k.High).val, Low |-> ParseFloat(k.Low).val,
     Volume |-> ParseFloat(k.Volume).val, Complete |-> TRUE]

\* Binance.CandlesByLimit.
CandlesByLimit(symbol, resp) ==
    IF resp.err
    THEN [err |-> TRUE, candles |-> << >>]
    ELSE [err |-> FALSE,
          candles |-> [i \in 1..Len(resp.data) |->
                          CandleFromKline(symbol, resp.data[i])]]

\* validate: the commission that applies, the taker's for market,
\* limit-maker, stop-loss and take-profit orders.
Commission(typ) ==
    IF typ \in {OrderTypeMarket, OrderTypeLimitMaker, OrderTypeStopLoss,
                OrderTypeTakeProfit}
    THEN userInfo.TakerCommission
    ELSE userInfo.MakerCommission

\* validate: commissionFactor = 1 + commission, a float64.
CommissionFactor(typ) == F64Add(F64(Unit), F64(Commission(typ)))

\* validate: the price the buy check uses: the given one, or, given none
\* (<< >>), the close of the latest candle.
CheckValue(side, symbol, value, candles) ==
    IF /\ side = SideTypeBuy /\ value = << >> /\ ~candles.err
       /\ Len(candles.candles) > 0
    THEN <<candles.candles[1].Close>>
    ELSE value

\* free < quantity * value * commissionFactor, in float64
ShortOfQuote(free, quantity, value, factor) ==
    F64Less(F64(free), F64Mul(F64Mul(F64(quantity), F64(value)), factor))

\* free < quantity * commissionFactor, in float64
ShortOfBase(free, quantity, factor) ==
    F64Less(F64(free), F64Mul(F64(quantity), factor))

\* A faulty variant: the lower limit is not tested.
QuantityOutOfBoundsMaxOnly(info, quantity) == Less(info.MaxQuantity, quantity)

\* validate: the quantity is outside the symbol's limits.
QuantityOutOfBounds(info, quantity) ==
    Less(info.MaxQuantity, quantity) \/ Less(quantity, info.MinQuantity)

\* validate: the balance check, at the price v (<< >> when there is none).
validateBalance(side, info, quantity, v, factor, account) ==
    IF /\ side = SideTypeBuy
       /\ v # << >>
       /\ ShortOfQuote(Balance(account, info.QuoteAsset).Free,
                       quantity, v[1], factor)
    THEN ErrInsufficientFunds
    ELSE IF /\ side = SideTypeSell
            /\ ShortOfBase(Balance(account, info.BaseAsset).Free,
                           quantity, factor)
    THEN ErrInsufficientFunds
    ELSE ErrNil

\* validate, from its account request on.
validateFunds(side, symbol, info, quantity, value, factor, account, candles) ==
    IF account.err THEN ErrVenue
    ELSE IF side = SideTypeBuy /\ value = << >> /\ candles.err THEN ErrVenue
    ELSE IF side = SideTypeBuy /\ value = << >> /\ Len(candles.candles) = 0
    THEN Panic
    ELSE validateBalance(side, info, quantity,
                         CheckValue(side, symbol, value, candles),
                         factor, account)

\* Binance.validate, given the venue's answers to the requests it makes:
\* the account request and, after it, for a buy without a price, the
\* request for the latest candle.
validate(side, typ, symbol, quantity, value, accResp, klResp) ==
    IF symbol \notin DOMAIN assetsInfo THEN ErrInvalidAsset
    ELSE IF QuantityOutOfBounds(assetsInfo[symbol], quantity)
    THEN ErrInvalidQuantity
    ELSE validateFunds(side, symbol, assetsInfo[symbol], quantity, value,
                       CommissionFactor(typ), Account(accResp),
                       CandlesByLimit(symbol, klResp))

\* Binance.formatPrice
formatPrice(symbol, value) ==
    FormatFloat(value, IF symbol \in DOMAIN assetsInfo
                       THEN assetsInfo[symbol].PriceDecimalPrecision
                       ELSE -1)

\* Binance.formatQuantity
formatQuantity(symbol, value) ==
    FormatFloat(value, IF symbol \in DOMAIN assetsInfo
                       THEN assetsInfo[symbol].QtyDecimalPrecision
                       ELSE -1)

(***************************************************************************)
(* Order submission.  A submission runs in steps, one per request to the   *)
(* venue, so that submissions of concurrent callers interleave as the      *)
(* code's do: in each validation the account request and then, for a buy  *)
(* without a price, the candle request; then the order-creation request.   *)
(***************************************************************************)
\* Submissions a caller may start (bounds of the model).
MaxCalls == 1
MaxConcCalls == 2

NoText == << >>

Idle ==
    [pc |-> "idle", op |-> "", side |-> "", symbol |-> "", quantity |-> 0,
     price |-> 0, stop |-> 0, stopLimit |-> 0,
     checks |-> << >>, pending |-> << >>, sent |-> << >>, respBad |-> FALSE,
     err |-> ErrNil, orders |-> << >>]

Submission(op, side, symbol, quantity, price, stop, stopLimit) ==
    [Idle EXCEPT !.pc = "validate", !.op = op, !.side = side,
                 !.symbol = symbol, !.quantity = quantity, !.price = price,
                 !.stop = stop, !.stopLimit = stopLimit]

\* The asset an order spends: the quote asset of a buy, the base asset of a
\* sell.
SpendAsset(side, symbol) ==
    IF symbol \notin DOMAIN assetsInfo THEN ""
    ELSE IF side = SideTypeBuy THEN assetsInfo[symbol].QuoteAsset
    ELSE assetsInfo[symbol].BaseAsset

\* A call of validate by caller p has finished with res; what it read and
\* returned is kept in the caller's checks.
Validated(p, check, res, next) ==
    [call EXCEPT ![p] =
        [@ EXCEPT !.pc = IF res = Panic THEN "panicked"
                         ELSE IF res # ErrNil THEN "done" ELSE next,
                  !.err = IF res # ErrNil THEN res ELSE @,
                  !.pending = << >>,
                  !.checks = Append(@, [check EXCEPT !.res = res])]]

\* Whether a call of validate for the submission c gets as far as its
\* account request.
Asked(c) ==
    /\ c.symbol \in DOMAIN assetsInfo
    /\ ~QuantityOutOfBounds(assetsInfo[c.symbol], c.quantity)

\* What a call of validate for the submission c read from the venue's
\* answer to its account request.
Check(c, typ, value, asked, fail, bad, account) ==
    [typ |-> typ,
     asset |-> SpendAsset(c.side, c.symbol),
     asked |-> asked,
     accErr |-> asked /\ account.err,
     accBad |-> asked /\ ~fail /\ bad,
     free |-> IF asked /\ ~account.err
              THEN Balance(account, SpendAsset(c.side, c.symbol)).Free ELSE 0,
     ledgerFree |-> IF SpendAsset(c.side, c.symbol) \in Assets
                    THEN ledger[SpendAsset(c.side, c.symbol)] ELSE 0,
     klAsked |-> FALSE, klErr |-> FALSE, klBad |-> FALSE,
     klEmpty |-> FALSE,
     value |-> value,
     commission |-> Commission(typ),
     res |-> ErrNil]

\* The account request answered: a buy without a price goes on to ask for
\* a candle, any other call of validate ends.
AccountAnswered(p, typ, value, next, accResp, check) ==
    call' =
        IF /\ check.asked /\ ~check.accErr
           /\ call[p].side = SideTypeBuy /\ value = << >>
        THEN [call EXCEPT ![p] =
                [@ EXCEPT !.pc = "candle",
                          !.pending = <<[check |-> check,
                                         accResp |-> accResp]>>]]
        ELSE Validated(p, check,
                       validate(call[p].side, typ, call[p].symbol,
                                call[p].quantity, value, accResp, NoKlines),
                       next)

AccountRequested(p, typ, value, next, fail, bad, accResp) ==
    AccountAnswered(p, typ, value, next, accResp,
                    Check(call[p], typ, value, Asked(call[p]), fail, bad,
                          Account(accResp)))

\* A call of validate by caller p, up to and with its account request,
\* which the venue answers from its state (and refuses without
\* credentials).  A buy without a price goes on to ask for a candle.
ValidateLeg(p, typ, value, next) ==
    /\ call[p].pc = "validate"
    /\ \E fail \in BOOLEAN, bad \in BOOLEAN :
          /\ ~credentials => fail
          /\ AccountRequested(p, typ, value, next, fail, bad,
                AccountResponse(fail,
                    IF bad THEN {SpendAsset(call[p].side, call[p].symbol)}
                    ELSE {}))
    /\ UNCHANGED <<adapterVars, ledger, venueOrders, ncalls, cancelled,
                   feedVars>>

\* The candle request answered: the balance check at the close of the
\* first candle of the answer, which the code takes without looking whether
\* there is one.
CandleAnswered(p, typ, next, kfail, kbad, kempty, klResp) ==
    call' =
        Validated(p,
            [call[p].pending[1].check EXCEPT
                !.klAsked = TRUE,
                !.klErr = kfail,
                !.klBad = ~kfail /\ kbad,
                !.klEmpty = kempty,
                !.value = CheckValue(call[p].side, call[p].symbol, << >>,
                             CandlesByLimit(call[p].symbol, klResp))],
            validate(call[p].side, typ, call[p].symbol, call[p].quantity,
                     << >>, call[p].pending[1].accResp, klResp),
            next)

\* The rest of a call of validate for a buy without a price: the request
\* for the latest candle, and the balance check at its close.
ValidateCandle(p, typ, next) ==
    /\ call[p].pc = "candle"
    /\ \E kfail \in BOOLEAN, kbad \in BOOLEAN, kempty \in BOOLEAN :
          /\ kempty => ~kfail /\ ~kbad
          /\ CandleAnswered(p, typ, next, kfail, kbad, kempty,
                            KlinesResponse(call[p].symbol, kfail, kbad,
                                           kempty))
    /\ UNCHANGED <<adapterVars, ledger, venueOrders, ncalls, cancelled,
                   feedVars>>

\* What a text the venue received stands for.
TextValue(text) == ParseFloat(text).val

\* The price the venue takes for an order-creation request: the latest
\* close for a market order, the higher of the two limits for an OCO.
VenuePrice(req) ==
    IF req.type = OrderTypeMarket THEN ClosePrice(req.symbol)
    ELSE IF req.service = "oco"
    THEN Max(TextValue(req.price), TextValue(req.stopLimitPrice))
    ELSE TextValue(req.price)

\* The venue's view of an order-creation request for the quantity q at the
\* price p: the asset it spends and how much, the asset it yields at once
\* and how much (a market order is filled; other orders rest and lock what
\* they spend).
SpendsAt(req, info, q, p) ==
    IF req.side = SideTypeBuy
    THEN [asset |-> info.QuoteAsset, amount |-> MulAmount(q, p),
          yields |-> info.BaseAsset,
          gain |-> IF req.type = OrderTypeMarket THEN q ELSE 0]
    ELSE [asset |-> info.BaseAsset, amount |-> q,
          yields |-> info.QuoteAsset,
          gain |-> IF req.type = OrderTypeMarket THEN MulAmount(q, p) ELSE 0]

Spends(req) ==
    SpendsAt(req, assetsInfo[req.symbol], TextValue(req.quantity),
             VenuePrice(req))

\* The venue fails the request, or accepts it when the free balance covers
\* what it spends (s): it gives each order the next order id after n and
\* answers with the order reports.  The orders of one request form a
\* group, whose first order holds what the group locks.
VenueCreates(p, req, fail, bad, reports, s, n) ==
    /\ fail \/ ledger[s.asset] >= s.amount
    /\ ledger' = IF fail THEN ledger
                 ELSE [a \in Assets |->
                         IF a = s.asset THEN ledger[a] - s.amount
                         ELSE IF a = s.yields THEN ledger[a] + s.gain
                         ELSE ledger[a]]
    /\ venueOrders' =
         IF fail THEN venueOrders
         ELSE venueOrders \o
              [i \in 1..Len(reports) |->
                  [symbol |-> req.symbol, group |-> n + 1,
                   open |-> req.type # OrderTypeMarket,
                   asset |-> s.asset,
                   locked |-> IF i = 1 /\ req.type # OrderTypeMarket
                              THEN s.amount ELSE 0]]
    /\ call' = [call EXCEPT ![p] =
         [@ EXCEPT !.pc = "done",
                   !.sent = Append(@, req),
                   !.respBad = ~fail /\ bad,
                   !.err = IF fail THEN ErrVenue ELSE ErrNil,
                   !.orders = IF fail THEN << >>
                              ELSE [i \in 1..Len(reports) |->
                                      [ExchangeID |-> n + i] @@ reports[i]]]]

\* The order-creation request of caller p reaches the venue (which refuses
\* it without credentials); the numeric fields of the reports are text,
\* malformed when bad.
CreateAtVenue(p, req, fail, bad, reports) ==
    /\ call[p].pc = "send"
    /\ ~credentials => fail
    /\ VenueCreates(p, req, fail, bad, reports, Spends(req), Len(venueOrders))
    /\ UNCHANGED <<adapterVars, ncalls, cancelled, feedVars>>

\* A numeric field of a venue response that echoes a text of the request.
Echo(text, bad) == IF bad THEN Malformed ELSE text

\* cost / quantity in float64: NaN for 0 / 0, an infinity for a division by
\* zero, and else the float64 nearest the quotient, kept as its two terms.
Quotient(cost, quantity) ==
    IF quantity = 0
    THEN IF cost = 0 THEN NaN ELSE IF cost > 0 THEN PosInf ELSE NegInf
    ELSE [num |-> cost, den |-> quantity]

----------------------------------------------------------------------------
\* OrderMarket(side, symbol, quantity): the call.
OrderMarketCall(p, side, symbol, quantity) ==
    /\ newErr = ErrNil
    /\ call[p].pc = "idle"
    /\ call' = [call EXCEPT ![p] =
                  Submission("market", side, symbol, quantity, 0, 0, 0)]
    /\ ncalls' = ncalls + 1
    /\ UNCHANGED <<adapterVars, ledger, venueOrders, cancelled, feedVars>>

\* OrderMarket: validate(side, market, symbol, quantity, nil), up to and
\* with its account request.
OrderMarketValidate(p) ==
    /\ call[p].op = "market"
    /\ ValidateLeg(p, OrderTypeMarket, << >>, "send")

\* OrderMarket: validate's request for the latest candle, and its end.
OrderMarketValidateCandle(p) ==
    /\ call[p].op = "market"
    /\ ValidateCandle(p, OrderTypeMarket, "send")

\* OrderMarket: the order-creation request.
MarketRequest(c) ==
    [service |-> "order", symbol |-> c.symbol,
     type |-> OrderTypeMarket, side |-> c.side,
     quantity |-> formatQuantity(c.symbol, c.quantity),
     price |-> NoText, stopPrice |-> NoText, stopLimitPrice |-> NoText]

\* OrderMarket: the order made of the answer; the price is cost / quantity.
MarketOrder(c, cost, quantity) ==
    [Symbol |-> c.symbol, Side |-> c.side, Type |-> OrderTypeMarket,
     Price |-> Quotient(cost, quantity), Quantity |-> quantity,
     Stop |-> << >>]

\* OrderMarket: the venue's answer, with the quantity executed and its
\* cost at the latest close as text, parsed with errors discarded.
MarketAnswer(p, req, fail, bad) ==
    CreateAtVenue(p, req, fail, bad,
        <<MarketOrder(call[p],
            ParseFloat(Echo(VenueText(MulAmount(TextValue(req.quantity),
                                                ClosePrice(req.symbol))),
                            bad)).val,
            ParseFloat(Echo(VenueText(TextValue(req.quantity)), bad)).val)>>)

\* OrderMarket: the order-creation request and the order made of its answer.
OrderMarketSend(p) ==
    /\ call[p].op = "market"
    /\ call[p].pc = "send"
    /\ \E fail \in BOOLEAN, bad \in BOOLEAN :
          MarketAnswer(p, MarketRequest(call[p]), fail, bad)

\* OrderLimit(side, symbol, quantity, limit): the call.
OrderLimitCall(p, side, symbol, quantity, limit) ==
    /\ newErr = ErrNil
    /\ call[p].pc = "idle"
    /\ call' = [call EXCEPT ![p] =
                  Submission("limit", side, symbol, quantity, limit, 0, 0)]
    /\ ncalls' = ncalls + 1
    /\ UNCHANGED <<adapterVars, ledger, venueOrders, cancelled, feedVars>>

\* OrderLimit: validate(side, limit, symbol, quantity, &limit).
OrderLimitValidate(p) ==
    /\ call[p].op = "limit"
    /\ ValidateLeg(p, OrderTypeLimit, <<call[p].price>>, "send")

\* OrderLimit: the order-creation request.
LimitRequest(c) ==
    [service |-> "order", symbol |-> c.symbol,
     type |-> OrderTypeLimit, side |-> c.side,
     quantity |-> formatQuantity(c.symbol, c.quantity),
     price |-> formatPrice(c.symbol, c.price),
     stopPrice |-> NoText, stopLimitPrice |-> NoText]

\* OrderLimit: the venue's answer and the order made of it, parse errors
\* discarded.
LimitAnswer(p, req, fail, bad) ==
    CreateAtVenue(p, req, fail, bad,
        <<[Symbol |-> req.symbol, Side |-> req.side,
           Type |-> OrderTypeLimit,
           Price |-> ParseFloat(Echo(req.price, bad)).val,
           Quantity |-> ParseFloat(Echo(req.quantity, bad)).val,
           Stop |-> << >>]>>)

\* OrderLimit: the order-creation request and the order made of its answer.
OrderLimitSend(p) ==
    /\ call[p].op = "limit"
    /\ call[p].pc = "send"
    /\ \E fail \in BOOLEAN, bad \in BOOLEAN :
          LimitAnswer(p, LimitRequest(call[p]), fail, bad)

\* OrderOCO(side, symbol, quantity, price, stop, stopLimit): the call.
OrderOCOCall(p, side, symbol, quantity, price, stop, stopLimit) ==
    /\ newErr = ErrNil
    /\ call[p].pc = "idle"
    /\ call' = [call EXCEPT ![p] =
                  Submission("oco", side, symbol, quantity, price, stop, stopLimit)]
    /\ ncalls' = ncalls + 1
    /\ UNCHANGED <<adapterVars, ledger, venueOrders, cancelled, feedVars>>

\* A faulty variant: only the stop leg is validated.
OrderOCOValidateStopOnly(p) ==
    /\ call[p].op = "oco"
    /\ ValidateLeg(p, OrderTypeStopLossLimit, <<call[p].stopLimit>>, "send")

\* OrderOCO: validate stop, then validate take profit.
OrderOCOValidate(p) ==
    /\ call[p].op = "oco"
    /\ IF call[p].checks = << >>
       THEN ValidateLeg(p, OrderTypeStopLossLimit, <<call[p].stopLimit>>,
                        "validate")
       ELSE ValidateLeg(p, OrderTypeLimitMaker, <<call[p].price>>, "send")

\* OrderOCO: the OCO-creation request.
OCORequest(c) ==
    [service |-> "oco", symbol |-> c.symbol,
     type |-> "OCO", side |-> c.side,
     quantity |-> formatQuantity(c.symbol, c.quantity),
     price |-> formatPrice(c.symbol, c.price),
     stopPrice |-> formatPrice(c.symbol, c.stop),
     stopLimitPrice |-> formatPrice(c.symbol, c.stopLimit)]

\* OrderOCO: the order made of one report of the answer, parse errors
\* discarded; the stop is the one the caller gave.
OCOOrder(c, req, typ, price, bad) ==
    [Symbol |-> c.symbol, Side |-> c.side, Type |-> typ,
     Price |-> ParseFloat(Echo(price, bad)).val,
     Quantity |-> ParseFloat(Echo(req.quantity, bad)).val,
     Stop |-> IF typ \in {OrderTypeStopLossLimit, OrderTypeStopLoss}
              THEN <<c.stop>> ELSE << >>]

\* OrderOCO: the venue's answer, a report for each of the two orders.
OCOAnswer(p, req, fail, bad) ==
    CreateAtVenue(p, req, fail, bad,
        <<OCOOrder(call[p], req, OrderTypeStopLossLimit, req.stopLimitPrice,
                   bad),
          OCOOrder(call[p], req, OrderTypeLimitMaker, req.price, bad)>>)

\* OrderOCO: the OCO-creation request and the orders made of its reports.
OrderOCOSend(p) ==
    /\ call[p].op = "oco"
    /\ call[p].pc = "send"
    /\ \E fail \in BOOLEAN, bad \in BOOLEAN :
          OCOAnswer(p, OCORequest(call[p]), fail, bad)

\* The submission returns to its caller.
Return(p) ==
    /\ call[p].pc = "done"
    /\ call' = [call EXCEPT ![p] = Idle]
    /\ UNCHANGED <<adapterVars, ledger, venueOrders, ncalls, cancelled, feedVars>>

\* No order has been cancelled yet.
NotCancelled == [order |-> 0, err |-> ErrNil]

\* Cancel(order) by caller p, for an order a submission returned earlier:
\* one request to the venue, which fails it (always without credentials,
\* and when the order is not open), or closes the orders of the order's
\* group and frees what the group locked.
Cancel(p, id, fail) ==
    LET o       == venueOrders[id]
        group   == {j \in DOMAIN venueOrders : venueOrders[j].group = o.group}
        refused == fail \/ ~o.open
    IN  /\ newErr = ErrNil
        /\ call[p].pc = "idle"
        /\ id \in DOMAIN venueOrders
        /\ \A q \in DOMAIN call :
              \A i \in DOMAIN call[q].orders : call[q].orders[i].ExchangeID # id
        /\ ~credentials => fail
        /\ venueOrders' =
             IF refused THEN venueOrders
             ELSE [j \in DOMAIN venueOrders |->
                     IF j \in group
                     THEN [venueOrders[j] EXCEPT !.open = FALSE, !.locked = 0]
                     ELSE venueOrders[j]]
        /\ ledger' =
             IF refused THEN ledger
             ELSE [ledger EXCEPT ![o.asset] = @ + venueOrders[o.group].locked]
        /\ cancelled' = [order |-> id,
                         err |-> IF refused THEN ErrVenue ELSE ErrNil]
        /\ UNCHANGED <<adapterVars, call, ncalls, feedVars>>

(***************************************************************************)
(* Candle subscription.  CandlesSubscription makes two unbuffered channels *)
(* and starts a goroutine that runs binance.WsKlineServe.  WsKlineServe    *)
(* either fails to connect, or starts the connection's reader, which calls *)
(* the event handler for each kline event and the error handler for each   *)
(* error, one call at a time, and closes done when it ends.  A send on an  *)
(* unbuffered channel completes together with the consumer's receive.      *)
(***************************************************************************)
\* Events and undecodable messages one connection delivers (bounds).
MaxEvents == 2
MaxBadMessages == 1

\* A kline event of the stream; its numeric fields are text.
WsKlineEvent(n, bad) ==
    [StartTime |-> n,
     Open |-> IF bad THEN Malformed ELSE VenueText(D5(10000000)),
     Close |-> IF bad THEN Malformed ELSE VenueText(D5(10000400)),
     High |-> IF bad THEN Malformed ELSE VenueText(D5(10100000)),
     Low |-> IF bad THEN Malformed ELSE VenueText(D5(9900000)),
     Volume |-> IF bad THEN Malformed ELSE VenueText(Unit),
     IsFinal |-> TRUE]

\* CandleFromWsKline: parse errors are discarded.
CandleFromWsKline(symbol, k) ==
    [Symbol |-> symbol, Time |-> k.StartTime,
     Open |-> ParseFloat(k.Open).val, Close |-> ParseFloat(k.Close).val,
     High |-> ParseFloat(k.High).val, Low |-> ParseFloat(k.Low).val,
     Volume |-> ParseFloat(k.Volume).val, Complete |-> k.IsFinal]

\* CandlesSubscription(symbol, period): make the channels, start the
\* goroutine, return the channels.
CandlesSubscription(symbol) ==
    /\ newErr = ErrNil
    /\ gpc = "none"
    /\ sub' = symbol
    /\ gpc' = "serve"
    /\ UNCHANGED <<orderVars, rpc, conn, done, cerrClosed, ccandleClosed, produced,
                   received, errs, badMessages, consumer, sendOnClosed>>

\* The goroutine calls WsKlineServe, which fails to connect (ok = FALSE) or
\* starts the reader and returns.
Serve(ok) ==
    /\ gpc = "serve"
    /\ conn' = IF ok THEN "live" ELSE "failed"
    /\ rpc' = IF ok THEN "read" ELSE rpc
    /\ gpc' = IF ok THEN "wait" ELSE "startErr"
    /\ UNCHANGED <<orderVars, sub, done, cerrClosed, ccandleClosed, produced, received,
                   errs, badMessages, consumer, sendOnClosed>>

\* A faulty variant: the event handler does not block, and drops the candle
\* when the consumer is not receiving.
HandleEventNonBlocking(bad) ==
    /\ rpc = "read" /\ conn = "live"
    /\ Len(produced) < MaxEvents
    /\ produced' = Append(produced, WsKlineEvent(Len(produced) + 1, bad))
    /\ UNCHANGED <<orderVars, sub, gpc, rpc, conn, done, cerrClosed,
                   ccandleClosed, received, errs, badMessages, consumer,
                   sendOnClosed>>

\* The reader hands a kline event to the event handler, which sends its
\* candle on ccandle and blocks there until the consumer receives it.
HandleEvent(bad) ==
    /\ rpc = "read" /\ conn = "live"
    /\ Len(produced) < MaxEvents
    /\ produced' = Append(produced, WsKlineEvent(Len(produced) + 1, bad))
    /\ rpc' = "handler"
    /\ sendOnClosed' = (sendOnClosed \/ ccandleClosed)
    /\ UNCHANGED <<orderVars, sub, gpc, conn, done, cerrClosed, ccandleClosed, received,
                   errs, badMessages, consumer>>

\* The consumer receives from ccandle the candle the event handler is
\* sending; the handler returns and the reader reads on.
ReceiveCandle ==
    /\ rpc = "handler" /\ ~ccandleClosed /\ consumer = "running"
    /\ received' = Append(received,
                          CandleFromWsKline(sub, produced[Len(produced)]))
    /\ rpc' = "read"
    /\ UNCHANGED <<orderVars, sub, gpc, conn, done, cerrClosed, ccandleClosed, produced,
                   errs, badMessages, consumer, sendOnClosed>>

\* The reader gets a message it cannot decode, or (broken) the connection
\* breaks; it calls the error handler, which sends on cerr and blocks there.
HandleError(broken) ==
    /\ rpc = "read" /\ conn = "live"
    /\ broken \/ badMessages < MaxBadMessages
    /\ conn' = IF broken THEN "broken" ELSE conn
    /\ badMessages' = IF broken THEN badMessages ELSE badMessages + 1
    /\ rpc' = "errHandler"
    /\ sendOnClosed' = (sendOnClosed \/ cerrClosed)
    /\ UNCHANGED <<orderVars, sub, gpc, done, cerrClosed, ccandleClosed, produced,
                   received, errs, consumer>>

\* The connection is stopped without an error: the reader ends and done is
\* closed.
Stop ==
    /\ rpc = "read" /\ conn = "live"
    /\ conn' = "stopped"
    /\ rpc' = "exit"
    /\ done' = TRUE
    /\ UNCHANGED <<orderVars, sub, gpc, cerrClosed, ccandleClosed, produced, received,
                   errs, badMessages, consumer, sendOnClosed>>

\* The consumer receives from cerr the error the error handler is sending;
\* the handler returns, and after a broken connection the reader ends and
\* done is closed.
ReceiveHandlerError ==
    /\ rpc = "errHandler" /\ ~cerrClosed /\ consumer = "running"
    /\ errs' = errs + 1
    /\ rpc' = IF conn = "broken" THEN "exit" ELSE "read"
    /\ done' = (conn = "broken")
    /\ UNCHANGED <<orderVars, sub, gpc, conn, cerrClosed, ccandleClosed, produced,
                   received, badMessages, consumer, sendOnClosed>>

\* The consumer receives from cerr the error of the failed start, which the
\* goroutine is sending.
ReceiveStartError ==
    /\ gpc = "startErr" /\ ~cerrClosed /\ consumer = "running"
    /\ errs' = errs + 1
    /\ gpc' = "closeErr"
    /\ UNCHANGED <<orderVars, sub, rpc, conn, done, cerrClosed, ccandleClosed, produced,
                   received, badMessages, consumer, sendOnClosed>>

\* The goroutine's <-done returns once done is closed.
WaitDone ==
    /\ gpc = "wait" /\ done
    /\ gpc' = "closeErr"
    /\ UNCHANGED <<orderVars, sub, rpc, conn, done, cerrClosed, ccandleClosed, produced,
                   received, errs, badMessages, consumer, sendOnClosed>>

\* close(cerr)
CloseErr ==
    /\ gpc = "closeErr"
    /\ cerrClosed' = TRUE
    /\ gpc' = "closeCandle"
    /\ UNCHANGED <<orderVars, sub, rpc, conn, done, ccandleClosed, produced, received,
                   errs, badMessages, consumer, sendOnClosed>>

\* close(ccandle), and the goroutine returns.
CloseCandle ==
    /\ gpc = "closeCandle"
    /\ ccandleClosed' = TRUE
    /\ gpc' = "end"
    /\ UNCHANGED <<orderVars, sub, rpc, conn, done, cerrClosed, produced, received,
                   errs, badMessages, consumer, sendOnClosed>>

\* The consumer's receive from ccandle finds it closed, and the consumer
\* leaves.
ReceiveClosed ==
    /\ ccandleClosed /\ consumer = "running"
    /\ consumer' = "gone"
    /\ UNCHANGED <<orderVars, sub, gpc, rpc, conn, done, cerrClosed, ccandleClosed,
                   produced, received, errs, badMessages, sendOnClosed>>

(***************************************************************************)
(* Specifications.                                                         *)
(***************************************************************************)
Callers == {1, 2}

FeedIdle ==
    /\ sub = "" /\ gpc = "none" /\ rpc = "off" /\ conn = "none"
    /\ done = FALSE /\ cerrClosed = FALSE /\ ccandleClosed = FALSE
    /\ produced = << >> /\ received = << >> /\ errs = 0 /\ badMessages = 0
    /\ consumer = "running" /\ sendOnClosed = FALSE

\* The program after NewBinance, with credentials or without, for the
\* failures the venue may answer with, and any exchange information,
\* commissions and balances of the venue.
Returned(b) ==
    newErr = b.err /\ assetsInfo = b.assetsInfo /\ userInfo = b.userInfo
Constructed(withCredentials, failures, infos, commissions, ledgers) ==
    /\ credentials \in withCredentials
    /\ \E pingFails \in failures, accFails \in failures,
          infoFails \in failures, results \in infos, acc \in commissions :
         Returned(NewBinance(credentials, pingFails,
                             AccountInfo(accFails, acc),
                             ExchangeInfo(infoFails, results)))
    /\ ledger \in ledgers
    /\ venueOrders = << >>
    /\ call = [p \in Callers |-> Idle]
    /\ ncalls = 0
    /\ cancelled = NotCancelled

\* Arguments of the submissions.
Sides == {SideTypeBuy, SideTypeSell}
CallSymbols == {"BTCUSDT", UnknownSymbol}
Quantities == {D5(50), D5(100000), D5(123420), D5(123456), D5(300000)}
Prices == {D5(10000000), D5(10000400), D5(10100000)}
Stops == {D5(9950300)}
StopLimits == {D5(9900000), D5(10100000)}

Init ==
    /\ Constructed(BOOLEAN, BOOLEAN, ExchangeInfos, Commissions, Ledgers)
    /\ FeedIdle

\* A caller starts a submission, one of at most limit.
Submit(p, limit, sides, symbols, quantities, prices) ==
    \/ \E side \in sides, symbol \in symbols, quantity \in quantities :
          ncalls < limit /\ OrderMarketCall(p, side, symbol, quantity)
    \/ \E side \in sides, symbol \in symbols, quantity \in quantities,
          price \in prices :
          ncalls < limit /\ OrderLimitCall(p, side, symbol, quantity, price)
    \/ \E side \in sides, symbol \in symbols, quantity \in quantities,
          price \in prices, stop \in Stops, stopLimit \in StopLimits :
          ncalls < limit
          /\ OrderOCOCall(p, side, symbol, quantity, price, stop, stopLimit)

Run(p) ==
    \/ OrderMarketValidate(p)
    \/ OrderMarketValidateCandle(p)
    \/ OrderMarketSend(p)
    \/ OrderLimitValidate(p)
    \/ OrderLimitSend(p)
    \/ OrderOCOValidate(p)
    \/ OrderOCOSend(p)
    \/ Return(p)
    \/ \E id \in DOMAIN venueOrders, fail \in BOOLEAN : Cancel(p, id, fail)

\* One caller submitting orders one after the other and cancelling them.
Next ==
    \/ Submit(1, MaxCalls, Sides, CallSymbols, Quantities, Prices)
    \/ Run(1)

Spec == Init /\ [][Next]_vars

\* Two callers (two per-symbol loops) submitting orders concurrently; no
\* lock is taken anywhere in the adapter.
ConcQuantities == {D5(100000)}
ConcPrices == {D5(6000000)}

ConcNext ==
    \E p \in Callers :
        \/ Submit(p, MaxConcCalls, {SideTypeBuy}, Symbols, ConcQuantities,
                  ConcPrices)
        \/ Run(p)

ConcInit ==
    /\ Constructed({TRUE}, {FALSE}, {DecimalSteps},
                   {[maker |-> 10, taker |-> 10]},
                   {[a \in Assets |-> IF a = "USDT" THEN D5(10000000)
                                      ELSE D5(200000)]})
    /\ FeedIdle

ConcSpec == ConcInit /\ [][ConcNext]_vars

\* One candle subscription, its connection and its consumer.
FeedInit ==
    /\ Constructed({TRUE}, {FALSE}, {DecimalSteps},
                   {[maker |-> 10, taker |-> 10]}, {[a \in Assets |-> 0]})
    /\ FeedIdle

FeedNext ==
    \/ \E symbol \in Symbols : CandlesSubscription(symbol)
    \/ \E ok \in BOOLEAN : Serve(ok)
    \/ \E bad \in BOOLEAN : HandleEvent(bad)
    \/ \E broken \in BOOLEAN : HandleError(broken)
    \/ Stop
    \/ ReceiveCandle
    \/ ReceiveHandlerError
    \/ ReceiveStartError
    \/ WaitDone
    \/ CloseErr
    \/ CloseCandle
    \/ ReceiveClosed

\* The scheduler runs the subscription's goroutine when it can take a step.
\* Nothing is assumed of the consumer: it may receive late, or never.
FeedFairness ==
    /\ WF_vars(\E ok \in BOOLEAN : Serve(ok))
    /\ WF_vars(WaitDone)
    /\ WF_vars(CloseErr)
    /\ WF_vars(CloseCandle)

FeedSpec == FeedInit /\ [][FeedNext]_vars /\ FeedFairness

(***************************************************************************)
(* The claims.                                                             *)
(***************************************************************************)
\* The submissions in progress, and the validations each has run.
Active == {p \in Callers : call[p].pc # "idle"}
Checks(p) == {call[p].checks[i] : i \in 1..Len(call[p].checks)}
Requests(p) == {call[p].sent[i] : i \in 1..Len(call[p].sent)}

\* The product of three amounts, exactly.
Product3(x, y, z) == BigMul(BigMul(BigOfInt(x), BigOfInt(y)), BigOfInt(z))

\* The free balance and the required amount of a buy, quantity * value *
\* (1 + commission), exactly, in units of 1 / Unit^3; those of a sell,
\* quantity * (1 + commission), in units of 1 / Unit^2.
FreeOfQuote(free) == Product3(free, Unit, Unit)
Cost(quantity, value, commission) ==
    Product3(quantity, value, Unit + commission)
FreeOfBase(free) == Product3(free, Unit, 1)
Quantity(quantity, commission) == Product3(quantity, Unit + commission, 1)

\* quantity * value * (1 + commission) exceeds free, exactly.
CostExceeds(free, quantity, value, commission) ==
    BigLess(FreeOfQuote(free), Cost(quantity, value, commission))
\* quantity * (1 + commission) exceeds free, exactly.
QuantityExceeds(free, quantity, commission) ==
    BigLess(FreeOfBase(free), Quantity(quantity, commission))

\* C1: a submission (market, limit or OCO) on a known symbol whose quantity
\* is below MinQuantity or above MaxQuantity is rejected with
\* ErrInvalidQuantity, returns no order, and no order-creation request
\* reaches the venue, whatever the side, the prices and the balances.
C1_OutOfBoundsRejected ==
    \A p \in Active :
        LET c == call[p] IN
        (/\ c.symbol \in DOMAIN assetsInfo
         /\ \/ c.quantity < assetsInfo[c.symbol].MinQuantity
            \/ c.quantity > assetsInfo[c.symbol].MaxQuantity)
        => /\ c.sent = << >>
           /\ c.pc \in {"validate", "done"}
           /\ c.pc = "validate" => c.checks = << >>
           /\ c.pc = "done" => c.err = ErrInvalidQuantity /\ c.orders = << >>

\* C1's case: an OCO sell below the minimum and a market buy above the
\* maximum have been rejected.
C1_Witness ==
    \E p \in Active :
        LET c == call[p] IN
        /\ c.pc = "done" /\ c.err = ErrInvalidQuantity
        /\ c.symbol \in DOMAIN assetsInfo
        /\ \/ c.op = "oco" /\ c.side = SideTypeSell
              /\ c.quantity < assetsInfo[c.symbol].MinQuantity
           \/ c.op = "market" /\ c.side = SideTypeBuy
              /\ c.quantity > assetsInfo[c.symbol].MaxQuantity

\* C2: whenever validation runs on a quantity within bounds and the venue
\* answers its requests (answers that failed, that carry malformed fields
\* or that hold no candle are left aside), it fails with
\* ErrInsufficientFunds exactly when the required amount (quantity x price x
\* commission factor of a buy, the price of a market buy being the latest
\* close; quantity x commission factor of a sell) exceeds the asset's free
\* balance, and passes otherwise; with quote free = 100 and commission
\* factor 1.001, a buy of 1 at 101 fails with ErrInsufficientFunds.
C2_FailsExactlyWhenShort ==
    \A p \in Active : \A k \in Checks(p) :
        LET c == call[p]
            price == IF k.typ = OrderTypeMarket THEN ClosePrice(c.symbol)
                     ELSE k.value[1]
            short == IF c.side = SideTypeBuy
                     THEN CostExceeds(k.ledgerFree, c.quantity, price,
                                      k.commission)
                     ELSE QuantityExceeds(k.ledgerFree, c.quantity,
                                          k.commission)
        IN  (/\ k.asked /\ ~k.accErr /\ ~k.accBad
             /\ c.side = SideTypeBuy /\ k.typ = OrderTypeMarket
                   => k.klAsked /\ ~k.klErr /\ ~k.klBad /\ ~k.klEmpty)
            => /\ k.res = ErrInsufficientFunds <=> short
               /\ k.res \in {ErrInsufficientFunds, ErrNil}

\* What a validation that passed requires of the asset it spends, and the
\* free balance, both in units of 1 / Unit^3.
Requires(p) ==
    LET c == call[p]
        k == c.checks[Len(c.checks)]
    IN  IF c.side = SideTypeBuy
        THEN Cost(c.quantity, k.value[1], k.commission)
        ELSE Cost(c.quantity, Unit, k.commission)
Covers(asset) == FreeOfQuote(ledger[asset])

\* C3: of two concurrent submissions that spend the same asset, whose free
\* balance covers either alone but not both, at most one has passed the
\* balance check and is about to be sent.
C3_AtMostOnePasses ==
    \A p, q \in Active :
        (/\ p # q
         /\ call[p].pc = "send" /\ call[q].pc = "send"
         /\ SpendAsset(call[p].side, call[p].symbol) =
            SpendAsset(call[q].side, call[q].symbol))
        => ~BigLess(Covers(SpendAsset(call[p].side, call[p].symbol)),
                    BigAdd(Requires(p), Requires(q)))

\* C4: in OrderOCO the OCO-creation request is sent only after the stop
\* leg (stop-loss-limit, at the stop-limit price) and then the take-profit
\* leg (limit-maker, at the limit price) have both been validated with
\* success; when a leg's validation fails the call returns that error with
\* no orders, and no request has been sent.
C4_BothLegsValidatedFirst ==
    \A p \in Active :
        LET c == call[p]
            n == Len(c.checks)
        IN  c.op = "oco" =>
            /\ (c.sent # << >> \/ c.pc = "send") =>
                  /\ n = 2
                  /\ c.checks[1].res = ErrNil /\ c.checks[2].res = ErrNil
                  /\ c.checks[1].typ = OrderTypeStopLossLimit
                  /\ c.checks[1].value = <<c.stopLimit>>
                  /\ c.checks[2].typ = OrderTypeLimitMaker
                  /\ c.checks[2].value = <<c.price>>
            /\ \A i \in 1..n :
                  c.checks[i].res # ErrNil =>
                     /\ i = n /\ c.pc = "done"
                     /\ c.err = c.checks[i].res
                     /\ c.orders = << >> /\ c.sent = << >>
            /\ \A i \in 1..Len(c.sent) : c.sent[i].service = "oco"

\* C4's case: an OCO whose stop leg passed and whose take-profit leg
\* failed has returned without sending, and another OCO was sent.
C4_Witness ==
    \E p \in Active :
        LET c == call[p] IN
        /\ c.op = "oco" /\ c.pc = "done"
        /\ \/ /\ Len(c.checks) = 2 /\ c.checks[1].res = ErrNil
              /\ c.checks[2].res = ErrInsufficientFunds
              /\ c.err = ErrInsufficientFunds /\ c.sent = << >>
           \/ /\ Len(c.sent) = 1 /\ c.err = ErrNil /\ Len(c.orders) = 2
              /\ c.stopLimit > c.price

\* C6: the quantity of every request sent to the venue is an exact multiple
\* of the symbol's step size, and every price in it of its tick size.
C6_SentAreMultiples ==
    \A p \in Active : \A r \in Requests(p) :
        LET info == assetsInfo[r.symbol] IN
        /\ TextValue(r.quantity) % info.StepSize = 0
        /\ \A t \in {r.price, r.stopPrice, r.stopLimitPrice} :
              t # NoText => TextValue(t) % info.TickSize = 0

\* C7: with step 0.001 and tick 0.01, a limit order of quantity 1.23456 at
\* price 100.004 is sent with quantity 1.234 and price 100.00.
C7_ExampleQuantized ==
    \A p \in Active : \A r \in Requests(p) :
        LET c == call[p] IN
        (/\ c.op = "limit"
         /\ assetsInfo[c.symbol].StepSize = D5(100)
         /\ assetsInfo[c.symbol].TickSize = D5(1000)
         /\ c.quantity = D5(123456) /\ c.price = D5(10000400))
        => /\ r.quantity = <<"1", ".", "2", "3", "4">>
           /\ r.price = <<"1", "0", "0", ".", "0", "0">>

\* C8: when a response of the venue carries a malformed numeric field, the
\* operation that parses it returns an error: the account request to
\* validate, the candle request to validate, the order creation to its
\* caller (with no order whose field was turned into zero).
C8_MalformedSurfaced ==
    \A p \in Active :
        /\ \A k \in Checks(p) :
              /\ k.accBad => k.accErr
              /\ k.klBad => k.klErr
        /\ call[p].respBad => call[p].err # ErrNil /\ call[p].orders = << >>

\* C10: what a limit or OCO request carries still satisfies what validation
\* checked: the quantity sent is within the symbol's limits, and with the
\* price sent for a leg it does not require more than the free balance the
\* leg's validation read.
C10_SentSatisfiesValidation ==
    \A p \in Active : \A r \in Requests(p) :
        LET c    == call[p]
            info == assetsInfo[r.symbol]
            q    == TextValue(r.quantity)
            sentPrice(k) == IF k.typ = OrderTypeStopLossLimit
                            THEN TextValue(r.stopLimitPrice)
                            ELSE TextValue(r.price)
        IN  c.op \in {"limit", "oco"} =>
            /\ q >= info.MinQuantity /\ q <= info.MaxQuantity
            /\ \A k \in Checks(p) :
                  IF c.side = SideTypeBuy
                  THEN ~CostExceeds(k.free, q, sentPrice(k), k.commission)
                  ELSE ~QuantityExceeds(k.free, q, k.commission)

\* C5: when the connection has ended (it failed to start, it broke, or it
\* was stopped), both channels are eventually closed; once one is closed
\* the other is closed too in the end; neither is closed while the
\* connection is live or its reader may still call a handler; and nothing
\* is sent on a closed channel.  Nothing is assumed of the consumer.
ConnectionEnded == conn \in {"failed", "broken", "stopped"}
C5_ClosedTogether ==
    /\ ConnectionEnded ~> (cerrClosed /\ ccandleClosed)
    /\ (cerrClosed \/ ccandleClosed) ~> (cerrClosed /\ ccandleClosed)
    /\ []((cerrClosed \/ ccandleClosed) => ConnectionEnded /\ conn # "live")
    /\ []((cerrClosed \/ ccandleClosed) => rpc \in {"off", "exit"})
    /\ []~sendOnClosed

\* C9: the candles the consumer has received are, in order, those of the
\* events handed to the event handler, none missing, repeated or reordered;
\* the handler holds at most the latest event, and only while it is blocked
\* sending it; and, with a consumer that receives a candle that is being
\* sent however late, every event handed over is received in the end.
Delivered(n) == Len(received) >= n
C9_DeliveredOnceInOrder ==
    /\ [](/\ Len(received) <= Len(produced)
          /\ \A i \in 1..Len(received) :
                received[i] = CandleFromWsKline(sub, produced[i])
          /\ \A i \in 1..Len(produced) : produced[i].StartTime = i
          /\ IF rpc = "handler"
             THEN Len(produced) = Len(received) + 1
             ELSE Len(produced) = Len(received))
    /\ WF_vars(ReceiveCandle)
          => \A n \in 1..(MaxEvents + 1) : (Len(produced) >= n) ~> Delivered(n)

\* C9's case: two events were produced while the consumer had received
\* none or one, and both have been received in order.
C9_Witness ==
    /\ Len(produced) = 2 /\ Len(received) = 2
    /\ received[1].Time = 1 /\ received[2].Time = 2
=============================================================================
